---------------------------- MODULE Spec2Model ----------------------------
(***************************************************************************)
(* Finvasia live feed: the publisher (wsclient.py, WebSocketClient), the   *)
(* ZeroMQ PUB/SUB transport between the two processes, and the subscriber  *)
(* (feed.py, LiveTradeFeed) with its receive loop, bar synthesizer,        *)
(* liveness check and nearest-premium search.                              *)
(*                                                                         *)
(* A tick or a cached record is a Python dict: a function from the field  *)
(* names it holds to their values.  Numbers arrive from the broker as      *)
(* decimal strings; Str(n) is the string of n and Num(n) the Python number *)
(* n, so that float() and truthiness are modelled by what they do.         *)
(* Wall-clock time is counted in whole seconds.                            *)
(***************************************************************************)
EXTENDS Integers, Sequences, FiniteSets, TLC

VARIABLES
    now,                  \* datetime.datetime.now(), in seconds
    pubQuotes,            \* WebSocketClient.__quotes
    pubLastQuoteDateTime, \* WebSocketClient.__lastQuoteDateTime
    pubLastReceivedDateTime, \* WebSocketClient.__lastReceivedDateTime
    pubConnected,         \* WebSocketClient.__connected
    connectionOpened,     \* WebSocketClient.__connectionOpened is set
    pendingSubscriptions, \* WebSocketClient.__pendingSubscriptions
    wait,                 \* a waitInitialized call: its position, its timeout,
                          \* when it was called, its loop counter, when its
                          \* sleep ends, what it returned and when
    pubSocket,            \* the PUB socket: "open" | "closed"
    clickhouse,           \* clickhouse_client: "none" (None), "up" or "down"
    connected,            \* the SUB socket is connected to the PUB socket
    transport,            \* multipart messages sent and not yet received
    latestQuotes,         \* LiveTradeFeed.__latestQuotes (key -> record)
    latestOrder,          \* insertion order of the keys of __latestQuotes
    latestOIs,            \* LiveTradeFeed.__latestOIs
    lastQuoteDateTime,    \* LiveTradeFeed.__lastQuoteDateTime
    lastReceivedDateTime, \* LiveTradeFeed.__lastReceivedDateTime
    lastUpdateTime,       \* LiveTradeFeed.__lastUpdateTime
    nextBarsTime,         \* LiveTradeFeed.__nextBarsTime
    stopped,              \* LiveTradeFeed.__stopped
    loopPc,               \* position of the __loopThread: "running" | "exited",
                          \* or "raised" when an exception ended it
    stopPc,               \* position of a stop() call: "idle" | "joining" | "returned"
    last,                 \* the subscriber's last operation and what it returned
    merging,              \* the receive loop's position inside one merge
    scan,                 \* a findNearestPremiumOption loop in progress
    \* history variables: they record the run, the program does not hold them
    nTicks,               \* calls of onQuoteUpdate so far
    seen,                 \* per key: what the raw ticks of that key carried so far
    lastTick,             \* the raw tick of the last onQuoteUpdate
    repeated,             \* that tick is the tick of the call before it, again
    prevRecord,           \* the record cached for that tick's key before the call
    lastSent,             \* the multipart message the publisher sent last
    nSent,                \* multipart messages the publisher sent so far
    nOrders,              \* calls of onOrderUpdate so far
    callback,             \* the broker callback that ran last: whether it
                          \* raised to the session, or caught an exception
    stored,               \* the sink write of the last onQuoteUpdate: the
                          \* client it had, whether it was called, its rows
    srcOf,                \* per cached key: the history of the tick merged last
    lastMerged,           \* the history of the tick the receive loop merged last
    batches               \* the lastQuoteDateTime values that batches consumed:
                          \* the last one, all of them, and whether one
                          \* was consumed twice

vars == <<now, pubQuotes, pubLastQuoteDateTime, pubLastReceivedDateTime,
          pubConnected, connectionOpened, pendingSubscriptions, wait,
          pubSocket, clickhouse, nSent, nOrders, callback, stored,
          connected, transport, latestQuotes, latestOrder, latestOIs, lastQuoteDateTime,
          lastReceivedDateTime, lastUpdateTime, nextBarsTime, stopped, loopPc,
          stopPc, last, nTicks, seen, lastTick, repeated, prevRecord, lastSent,
          srcOf, lastMerged, batches, merging, scan>>

pubHist == <<nTicks, seen, lastSent>>
cbHist == <<nSent, nOrders, callback, stored>>
tickHist == <<lastTick, repeated, prevRecord>>
subHist == <<srcOf, lastMerged, batches>>

pubVars == <<pubQuotes, pubLastQuoteDateTime, pubLastReceivedDateTime>>
ioVars == <<pubSocket, clickhouse>>
sessionVars == <<pubConnected, connectionOpened, pendingSubscriptions, wait,
                 ioVars>>
cacheVars == <<latestQuotes, latestOrder, latestOIs, lastQuoteDateTime,
               lastReceivedDateTime>>
pollVars == <<lastUpdateTime, nextBarsTime>>
stopVars == <<stopped, loopPc, stopPc>>
raceVars == <<merging, scan>>

---------------------------------------------------------------------------
(* Bounds of the model.                                                    *)

\* calls of onQuoteUpdate in one run of Spec and SpecPub
MaxTicks == 2
\* calls of onQuoteUpdate in one run of SpecSeries and SpecSearch
MaxSeriesTicks == 3
\* the wall clock stops advancing at MaxTime in SpecPub
MaxTime == 2
\* the wall clock stops advancing at MaxAliveTime in SpecAlive
MaxAliveTime == 7
\* calls of onQuoteUpdate in one run of SpecWait
MaxWaitTicks == 4
\* calls of onOrderUpdate in one run
MaxOrders == 2
\* the wall clock stops advancing at MaxWaitTime in SpecWait
MaxWaitTime == 3
\* messages the transport holds; a send beyond it is lost (PUB drops at the
\* high-water mark)
MaxQueue == 1

---------------------------------------------------------------------------
(* Python values.                                                          *)

\* Python None, where a datetime is expected
None == -1

\* a field a dict does not hold (generator argument only)
Absent == <<"absent", 0>>
Str(n) == <<"str", n>>
Num(n) == <<"num", n>>

\* a string that is not a decimal number
NaS == <<"text", 0>>

\* float(x) and int(x) return for x, and raise ValueError otherwise
Numeric(x) == x[1] \in {"str", "num"}

\* float(x) and int(x) of a decimal string or a number
float(x) == x[2]

\* bool(x): a non-empty string is true (also "0"), a number is true unless 0
Truthy(x) == x[1] = "str" \/ x[2] # 0

abs(x) == IF x < 0 THEN -x ELSE x

\* the empty dict
EmptyDict == [f \in {} |-> 0]

\* d[k] = v
Put(d, k, v) == [x \in DOMAIN d \cup {k} |-> IF x = k THEN v ELSE d[x]]

\* d.update(m)
Update(d, m) == [x \in DOMAIN d \cup DOMAIN m |-> IF x \in DOMAIN m THEN m[x] ELSE d[x]]

\* d.get(k, default)
Get(d, k, default) == IF k \in DOMAIN d THEN d[k] ELSE default

\* message["e"] + "|" + message["tk"]
KeyOf(message) == <<message["e"], message["tk"]>>

\* the token ids (exchange|token) of the session
Keys == {<<"NFO", "1">>, <<"NFO", "2">>, <<"NFO", "3">>, <<"NFO", "4">>}

---------------------------------------------------------------------------
(* Raw ticks: what the broker session hands to onQuoteUpdate.  Exchange    *)
(* and token are always there; any other field may be absent.              *)

Opt(name, val) == IF val = Absent THEN EmptyDict ELSE name :> val

RawTick(key, lp, v, oi, ft) ==
    ("e" :> key[1]) @@ ("tk" :> key[2]) @@ Opt("lp", lp) @@ Opt("v", v)
        @@ Opt("oi", oi) @@ Opt("ft", ft)

---------------------------------------------------------------------------
(* Transport: one PUB socket, one SUB socket subscribed to FEED_UPDATE.    *)

\* pickle.loads(pickle.dumps(record)): a copy, equal field by field
Pickled(record) == [f \in DOMAIN record |-> record[f]]

\* json.dumps(message).encode(): bytes that are not a pickle
JsonDumps(message) == [json |-> message]

\* pickle.loads(payload) raises for bytes that are not a pickle
Undecodable(payload) == "json" \in DOMAIN payload

\* (mutant) the SUB socket subscribes to every topic
Subscribed_All(topic) == TRUE

\* setsockopt_string(zmq.SUBSCRIBE, "FEED_UPDATE"): the topics delivered
Subscribed(topic) == topic = "FEED_UPDATE"

\* socket.send_multipart([topic, payload]); a PUB socket never blocks: it
\* drops the message when no subscriber is connected or the queue is full
SendMultipart(queue, parts) ==
    IF connected /\ Len(queue) < MaxQueue THEN Append(queue, parts) ELSE queue

\* what the SUB socket's queue holds after the publisher sent parts
Delivered(queue, parts) ==
    IF Subscribed(parts.topic) THEN SendMultipart(queue, parts) ELSE queue

---------------------------------------------------------------------------
(* Publisher: WebSocketClient.onQuoteUpdate.                               *)

\* (mutant) the cached cumulative volume is never read
PreviousVolume_NoBaseline(quotes, key) == Num(0)

\* the cumulative volume cached for key before the merge, else 0
PreviousVolume(quotes, key) ==
    IF key \in DOMAIN quotes /\ "v" \in DOMAIN quotes[key]
    THEN quotes[key]["v"] ELSE Num(0)

\* the quote time: the tick's exchange timestamp, else the receipt time
QuoteDateTime(message, received) ==
    IF "ft" \in DOMAIN message THEN float(message["ft"]) ELSE received

\* the record cached after the merge (symbolInfo.update(message), or the
\* message itself for a new key)
Merged(quotes, key, message) ==
    IF key \in DOMAIN quotes THEN Update(quotes[key], message) ELSE message

\* quotes[key]["volume"]
IncrementalVolume(message, previousVolume) ==
    IF "v" \in DOMAIN message
    THEN Num(float(message["v"]) - float(previousVolume))
    ELSE Num(0)

\* message["ct"] = now; message["ft"] = the quote time
Stamped(message, received) ==
    Put(Put(message, "ct", received), "ft", QuoteDateTime(message, received))

\* the record of message's key after onQuoteUpdate(message) at time `received`
QuoteRecord(quotes, message, received) ==
    LET key == KeyOf(message)
    IN  Put(Merged(quotes, key, Stamped(message, received)), "volume",
            IncrementalVolume(message, PreviousVolume(quotes, key)))

\* (mutant) the sink's exceptions are not caught in storeDataInClickhouse
storeDataInClickhouse_Unguarded(client, data) ==
    IF client = "none" THEN [raised |-> FALSE, rows |-> <<>>]
    ELSE IF "ts" \notin DOMAIN data \/ ~ Numeric(Get(data, "lp", NaS))
               \/ client = "down"
    THEN [raised |-> TRUE, rows |-> <<>>]
    ELSE [raised |-> FALSE,
          rows |-> << <<data["e"], data["ts"], data["ft"], float(data["lp"]),
                        float(data["volume"])>> >>]

\* storeDataInClickhouse(data): the row written, none when no client is
\* configured, when a field is missing or when the insert fails; every
\* exception is caught inside
storeDataInClickhouse(client, data) ==
    IF client = "up" /\ "ts" \in DOMAIN data /\ Numeric(Get(data, "lp", NaS))
    THEN [raised |-> FALSE,
          rows |-> << <<data["e"], data["ts"], data["ft"], float(data["lp"]),
                        float(data["volume"])>> >>]
    ELSE [raised |-> FALSE, rows |-> <<>>]

\* History of a tick, written from the raw ticks alone: whether it is the
\* first tick of its key, its cumulative volume and the previous tick's,
\* whether every tick of the key so far carried a cumulative volume no
\* smaller than the one before, the open interest carried last, and the
\* time the tick is for (its exchange timestamp, else its receipt time).
NoSeen == [any |-> FALSE, v |-> Absent, mono |-> TRUE, oi |-> Absent]

TickHistory(message, at) ==
    LET before == seen[KeyOf(message)]
    IN  [key |-> KeyOf(message),
         first |-> ~ before.any,
         v |-> Get(message, "v", Absent),
         prevV |-> before.v,
         mono |-> /\ before.mono
                  /\ "v" \in DOMAIN message
                  /\ before.any => message["v"][2] >= before.v[2],
         oi |-> Get(message, "oi", before.oi),
         hasOi |-> "oi" \in DOMAIN message,
         lp |-> Get(message, "lp", Absent),
         ft |-> IF "ft" \in DOMAIN message THEN message["ft"][2] ELSE at]

\* The multipart message carries, beside topic and payload, the history of
\* the tick it was built from (the program never reads it).  The body runs
\* in try/except Exception: int() of a timestamp and float() of a volume
\* that are not numbers, and a send on the closed socket, raise and end it
\* where they stand.
onQuoteUpdate(message) ==
    LET key == KeyOf(message)
        record == QuoteRecord(pubQuotes, message, now)
        src == TickHistory(message, now)
        parts == [topic |-> "FEED_UPDATE", payload |-> Pickled(record),
                  src |-> src]
        failsAtFt == "ft" \in DOMAIN message /\ ~ Numeric(message["ft"])
        failsAtV == /\ "v" \in DOMAIN message
                    /\ \/ ~ Numeric(message["v"])
                       \/ ~ Numeric(PreviousVolume(pubQuotes, key))
        failsAtSend == pubSocket = "closed"
        sent == ~ failsAtFt /\ ~ failsAtV /\ ~ failsAtSend
        sink == IF sent /\ "v" \in DOMAIN message
                THEN storeDataInClickhouse(clickhouse, record)
                ELSE [raised |-> FALSE, rows |-> <<>>]
    IN  /\ pubLastReceivedDateTime' = now
        /\ pubLastQuoteDateTime' = IF failsAtFt THEN pubLastQuoteDateTime
                                   ELSE QuoteDateTime(message, now)
        /\ pubQuotes' =
              IF failsAtFt THEN pubQuotes
              ELSE IF failsAtV
              THEN Put(pubQuotes, key, Merged(pubQuotes, key, Stamped(message, now)))
              ELSE Put(pubQuotes, key, record)
        /\ transport' = IF sent THEN Delivered(transport, parts) ELSE transport
        /\ lastSent' = IF sent THEN parts ELSE lastSent
        /\ nSent' = IF sent THEN nSent + 1 ELSE nSent
        /\ stored' = [client |-> clickhouse,
                      called |-> sent /\ "v" \in DOMAIN message,
                      rows |-> sink.rows]
        /\ callback' = [cb |-> "onQuoteUpdate", raised |-> FALSE,
                        caught |-> ~ sent \/ sink.raised]
        /\ nTicks' = nTicks + 1
        /\ seen' = [seen EXCEPT ![key] =
                        [any |-> TRUE, v |-> src.v, mono |-> src.mono, oi |-> src.oi]]

---------------------------------------------------------------------------
(* Publisher: the connection callbacks and WebSocketClient.waitInitialized. *)

\* onOpened: the session is connected, raceVars, every channel of the token mappings
\* is pending and subscribed, and the ready condition fires; an exception
\* of api.subscribe leaves the callback before the event is set
onOpened(subscribed) ==
    /\ pubConnected' = TRUE
    /\ pendingSubscriptions' = Keys
    /\ connectionOpened' = (connectionOpened \/ subscribed)
    /\ callback' = [cb |-> "onOpened", raised |-> ~ subscribed, caught |-> FALSE]
    /\ UNCHANGED <<now, pubVars, pubHist, nSent, nOrders, stored, tickHist, wait,
                   ioVars, connected, raceVars, transport, cacheVars, pollVars, stopVars,
                   last, subHist>>

onClosed ==
    /\ pubConnected' = FALSE
    /\ callback' = [cb |-> "onClosed", raised |-> FALSE, caught |-> FALSE]
    /\ UNCHANGED <<now, pubVars, pubHist, nSent, nOrders, stored, tickHist,
                   connectionOpened, pendingSubscriptions, wait, ioVars,
                   connected, raceVars, transport, cacheVars, pollVars, stopVars, last,
                   subHist>>

onError ==
    /\ callback' = [cb |-> "onError", raised |-> FALSE, caught |-> FALSE]
    /\ UNCHANGED <<now, pubVars, pubHist, nSent, nOrders, stored, tickHist,
                   pubConnected, connectionOpened, pendingSubscriptions, wait,
                   ioVars, connected, raceVars, transport, cacheVars, pollVars, stopVars,
                   last, subHist>>

\* onOrderUpdate(message): one send on topic ORDER_UPDATE, outside any try;
\* a send on the closed socket raises to the session
onOrderUpdate(message) ==
    LET parts == [topic |-> "ORDER_UPDATE", payload |-> JsonDumps(message)]
        sent == pubSocket = "open"
    IN  /\ transport' = IF sent THEN Delivered(transport, parts) ELSE transport
        /\ lastSent' = IF sent THEN parts ELSE lastSent
        /\ nSent' = IF sent THEN nSent + 1 ELSE nSent
        /\ nOrders' = nOrders + 1
        /\ callback' = [cb |-> "onOrderUpdate", raised |-> ~ sent,
                        caught |-> FALSE, message |-> message]
        /\ UNCHANGED <<now, pubVars, nTicks, seen, stored, tickHist,
                       sessionVars, connected, raceVars, cacheVars, pollVars, stopVars,
                       last, subHist>>

\* clickhouse_client is None unless a client was configured; the server
\* behind a client is up or down
clickhouseTurns(state) ==
    /\ clickhouse' = state
    /\ UNCHANGED <<now, pubVars, pubHist, cbHist, tickHist, pubConnected,
                   connectionOpened, pendingSubscriptions, wait, pubSocket,
                   connected, raceVars, transport, cacheVars, pollVars, stopVars, last,
                   subHist>>

\* stopClient: while connected, raceVars, close the websocket, the socket, the context
stopClient ==
    /\ pubSocket' = IF pubConnected THEN "closed" ELSE pubSocket
    /\ UNCHANGED <<now, pubVars, pubHist, cbHist, tickHist, pubConnected,
                   connectionOpened, pendingSubscriptions, wait, clickhouse,
                   connected, raceVars, transport, cacheVars, pollVars, stopVars, last,
                   subHist>>

NotWaiting == [pc |-> "idle"]

\* (mutant) one pending channel with a quote is enough
AllSubscribed_Any(pending, quotes) ==
    pending = {} \/ pending \cap DOMAIN quotes # {}

\* {pending ...}.issubset(self.__quotes.keys())
AllSubscribed(pending, quotes) == pending \subseteq DOMAIN quotes

\* waitInitialized is called: it blocks in __connectionOpened.wait(timeout)
waitInitialized(timeout) ==
    /\ wait.pc = "idle"
    /\ wait' = [pc |-> "waiting", timeout |-> timeout, calledAt |-> now]
    /\ UNCHANGED <<now, pubVars, pubHist, cbHist, tickHist, pubConnected,
                   connectionOpened, pendingSubscriptions, ioVars, connected, raceVars,
                   transport,
                   cacheVars, pollVars, stopVars, last, subHist>>

\* the value the call returns, and when
Returned(result) ==
    [pc |-> "returned", timeout |-> wait.timeout, calledAt |-> wait.calledAt,
     result |-> result, returnedAt |-> now]

\* Event.wait returns: at once with True when the event is set, with False
\* when timeout seconds have passed; True starts the loop over range(timeout)
waitOpened ==
    /\ wait.pc = "waiting"
    /\ IF connectionOpened
       THEN wait' = [pc |-> "polling", timeout |-> wait.timeout,
                     calledAt |-> wait.calledAt, i |-> 0, wakeAt |-> now]
       ELSE /\ now >= wait.calledAt + wait.timeout
            /\ wait' = Returned(FALSE)
    /\ UNCHANGED <<now, pubVars, pubHist, cbHist, tickHist, pubConnected,
                   connectionOpened, pendingSubscriptions, ioVars, connected, raceVars,
                   transport,
                   cacheVars, pollVars, stopVars, last, subHist>>

\* one turn of the loop: the check, then return True or time.sleep(1); the
\* loop exhausted returns False
waitPoll ==
    /\ wait.pc = "polling"
    /\ now >= wait.wakeAt
    /\ IF wait.i >= wait.timeout
       THEN /\ wait' = Returned(FALSE)
            /\ UNCHANGED pendingSubscriptions
       ELSE IF AllSubscribed(pendingSubscriptions, pubQuotes)
       THEN /\ pendingSubscriptions' = {}
            /\ wait' = Returned(TRUE)
       ELSE /\ wait' = [wait EXCEPT !.i = @ + 1, !.wakeAt = now + 1]
            /\ UNCHANGED pendingSubscriptions
    /\ UNCHANGED <<now, pubVars, pubHist, cbHist, tickHist, pubConnected,
                   connectionOpened, ioVars, connected, raceVars, transport,
                   cacheVars, pollVars, stopVars, last, subHist>>

\* the waiting thread has a step to take now: its wait or its sleep is over
WaitDue ==
    \/ wait.pc = "waiting"
          /\ (connectionOpened \/ now >= wait.calledAt + wait.timeout)
    \/ wait.pc = "polling" /\ now >= wait.wakeAt

---------------------------------------------------------------------------
(* Subscriber: LiveTradeFeed.  Token mapping and QuoteMessage.             *)

\* the instrument each token id names
tokenIdToInstrumentMappings ==
    (<<"NFO", "1">> :> <<"NFO", "A">>) @@ (<<"NFO", "2">> :> <<"NFO", "B">>)
        @@ (<<"NFO", "3">> :> <<"NFO", "C">>) @@ (<<"NFO", "4">> :> <<"NFO", "D">>)

\* QuoteMessage.price
price(eventDict) == float(Get(eventDict, "lp", Num(0)))

\* QuoteMessage.microprice, in twentieths (ticks of 0.05): the best prices
\* weighted by the opposite quantities, rounded up to a tick; the price when
\* a field is not a number or both quantities are 0
microprice(eventDict) ==
    LET bp1 == Get(eventDict, "bp1", Num(0))
        sp1 == Get(eventDict, "sp1", Num(0))
        bq1 == Get(eventDict, "bq1", Num(0))
        sq1 == Get(eventDict, "sq1", Num(0))
        total == float(bq1) + float(sq1)
        weighted == float(sp1) * float(bq1) + float(bp1) * float(sq1)
    IN  IF \A x \in {bp1, sp1, bq1, sq1} : Numeric(x)
        THEN IF total = 0 THEN 20 * price(eventDict)
             ELSE -((-(20 * weighted)) \div total)
        ELSE 20 * price(eventDict)

\* QuoteMessage.volume
volume(eventDict) == float(Get(eventDict, "volume", Get(eventDict, "v", Num(0))))

\* (mutant) the underlying's total open interest is read instead
openInterest_Total(eventDict) == float(Get(eventDict, "toi", Num(0)))

\* QuoteMessage.openInterest
openInterest(eventDict) == float(Get(eventDict, "oi", Num(0)))

\* QuoteMessage.instrument: the message's exchange and the mapped name
instrument(eventDict) ==
    <<eventDict["e"], tokenIdToInstrumentMappings[KeyOf(eventDict)][2]>>

\* (mutant) the bar opens at the day's open price, field "o"
QuoteBar_DayOpen(eventDict, dateTime) ==
    [dateTime |-> dateTime, open |-> float(Get(eventDict, "o", Num(0))),
     high |-> price(eventDict), low |-> price(eventDict),
     close |-> price(eventDict), volume |-> volume(eventDict),
     instrument |-> instrument(eventDict),
     openInterest |-> openInterest(eventDict)]

\* QuoteMessage.getBar(dateTime)
QuoteBar(eventDict, dateTime) ==
    [dateTime |-> dateTime, open |-> price(eventDict), high |-> price(eventDict),
     low |-> price(eventDict), close |-> price(eventDict),
     volume |-> volume(eventDict), instrument |-> instrument(eventDict),
     openInterest |-> openInterest(eventDict)]

---------------------------------------------------------------------------
(* The receive loop: one iteration of LiveTradeFeed.__async_main.          *)

NoLast == [op |-> "none"]

\* (mutant) only a negative price is dropped
Discarded_Negative(message) == price(message) < 0

\* the tick is dropped before the merge
Discarded(message) == price(message) <= 0

\* __latestOIs after the merge of message
TrackedOIs(ois, key, message) ==
    IF "oi" \in DOMAIN message
    THEN Put(ois, key, Num(float(message["oi"])))
    ELSE ois

\* the iteration raises an exception other than zmq.Again: float() of a
\* last price or of an open interest that is not a number
Raises(message) ==
    \/ Undecodable(message)
    \/ ~ Numeric(Get(message, "lp", Num(0)))
    \/ ~ Discarded(message) /\ "oi" \in DOMAIN message /\ ~ Numeric(message["oi"])

AsyncMain ==
    /\ loopPc = "running"
    /\ IF stopped
       THEN \* the while condition fails: the coroutine and the thread end
            /\ loopPc' = "exited"
            /\ UNCHANGED <<transport, cacheVars, last, subHist>>
       ELSE IF transport = <<>>
       THEN \* zmq.Again: sleep 10 ms
            UNCHANGED <<loopPc, transport, cacheVars, last, subHist>>
       ELSE LET message == Head(transport).payload
                key == KeyOf(message)
            IN  /\ transport' = Tail(transport)
                /\ loopPc' = IF Raises(message) THEN "raised" ELSE loopPc
                /\ IF Undecodable(message) \/ ~ Numeric(Get(message, "lp", Num(0)))
                   THEN \* pickle.loads or float(lp) raises, nothing catches it
                        /\ UNCHANGED <<cacheVars, subHist>>
                        /\ last' = [op |-> "raise"]
                   ELSE IF Discarded(message)
                   THEN /\ UNCHANGED <<cacheVars, subHist>>
                        /\ last' = [op |-> "discard"]
                   ELSE IF Raises(message)
                   THEN \* float(oi) raises ValueError after the cache merge
                        /\ latestQuotes' = Put(latestQuotes, key,
                                               Merged(latestQuotes, key, message))
                        /\ latestOrder' = IF key \in DOMAIN latestQuotes
                                          THEN latestOrder
                                          ELSE Append(latestOrder, key)
                        /\ UNCHANGED <<latestOIs, lastQuoteDateTime,
                                       lastReceivedDateTime, subHist>>
                        /\ last' = [op |-> "raise"]
                   ELSE /\ latestQuotes' = Put(latestQuotes, key,
                                               Merged(latestQuotes, key, message))
                        /\ latestOrder' = IF key \in DOMAIN latestQuotes
                                          THEN latestOrder
                                          ELSE Append(latestOrder, key)
                        /\ latestOIs' = TrackedOIs(latestOIs, key, message)
                        /\ lastQuoteDateTime' = message["ft"]
                        /\ lastReceivedDateTime' = now
                        /\ srcOf' = Put(srcOf, key, Head(transport).src)
                        /\ lastMerged' = Head(transport).src
                        /\ last' = [op |-> "merge"]
                        /\ batches' = [batches EXCEPT !.pending = TRUE]
    /\ UNCHANGED <<now, pubVars, pubHist, cbHist, tickHist, sessionVars, connected, raceVars, pollVars,
                   stopped, stopPc>>

---------------------------------------------------------------------------
(* One merge of the receive loop, statement by statement. The loop thread  *)
(* and the caller's thread share the interpreter: between two statements   *)
(* of the loop the caller's thread may run. Nothing in LiveTradeFeed locks *)
(* the cache or the clocks.                                                *)

\* recv_multipart, pickle.loads, the lp test and the write of __latestQuotes
asyncMainQuotes ==
    /\ loopPc = "running"
    /\ merging.pc = "idle"
    /\ ~ stopped
    /\ transport # <<>>
    /\ ~ Raises(Head(transport).payload)
    /\ ~ Discarded(Head(transport).payload)
    /\ LET message == Head(transport).payload
           key == KeyOf(message)
       IN  /\ transport' = Tail(transport)
           /\ latestQuotes' = Put(latestQuotes, key,
                                  Merged(latestQuotes, key, message))
           /\ latestOrder' = IF key \in DOMAIN latestQuotes
                             THEN latestOrder
                             ELSE Append(latestOrder, key)
           /\ merging' = [pc |-> "latestOIs", message |-> message,
                          src |-> Head(transport).src]
           /\ last' = [op |-> "merging"]
    /\ UNCHANGED <<now, pubVars, pubHist, cbHist, tickHist, sessionVars,
                   connected, scan, latestOIs, lastQuoteDateTime,
                   lastReceivedDateTime, pollVars, stopVars, subHist>>

\* the write of __latestOIs
asyncMainOIs ==
    /\ merging.pc = "latestOIs"
    /\ latestOIs' = TrackedOIs(latestOIs, KeyOf(merging.message), merging.message)
    /\ merging' = [merging EXCEPT !.pc = "clocks"]
    /\ UNCHANGED <<now, pubVars, pubHist, cbHist, tickHist, sessionVars,
                   connected, scan, transport, latestQuotes, latestOrder,
                   lastQuoteDateTime, lastReceivedDateTime, pollVars,
                   stopVars, last, subHist>>

\* the writes of __lastQuoteDateTime and __lastReceivedDateTime
asyncMainClocks ==
    /\ merging.pc = "clocks"
    /\ lastQuoteDateTime' = merging.message["ft"]
    /\ lastReceivedDateTime' = now
    /\ srcOf' = Put(srcOf, KeyOf(merging.message), merging.src)
    /\ lastMerged' = merging.src
    /\ merging' = [pc |-> "idle"]
    /\ last' = [op |-> "merge"]
    /\ batches' = [batches EXCEPT !.pending = TRUE]
    /\ UNCHANGED <<now, pubVars, pubHist, cbHist, tickHist, sessionVars,
                   connected, scan, transport, latestQuotes, latestOrder,
                   latestOIs, pollVars, stopVars>>

---------------------------------------------------------------------------
(* The bar synthesizer: LiveTradeFeed.getNextBars.                         *)

\* getBar's write into the cached record: message["oi"] = latestOIs.get(key, 0)
\* when the record holds no true open interest
Backfilled(message, ois) ==
    IF ~ ("oi" \in DOMAIN message /\ Truthy(message["oi"]))
    THEN Put(message, "oi", Get(ois, KeyOf(message), Num(0)))
    ELSE message

\* bar.Bars({instrument: bar ...}) over the cached records, in cache order
Bars(quotes, ois, barDateTime) ==
    LET instruments == {instrument(quotes[k]) : k \in DOMAIN quotes}
    IN  [i \in instruments |->
            LET k == CHOOSE k \in DOMAIN quotes : instrument(quotes[k]) = i
            IN  QuoteBar(Backfilled(quotes[k], ois), barDateTime)]

\* (mutant) a batch only when lastQuoteDateTime is later than the consumed one
HasNewQuote_Later == lastQuoteDateTime > lastUpdateTime

\* getNextBars: self.__lastUpdateTime != lastQuoteDateTime
HasNewQuote == lastUpdateTime # lastQuoteDateTime

\* what getNextBars returns: None, or the batch
NextBars ==
    IF HasNewQuote
    THEN [op |-> "getNextBars", batch |-> TRUE,
          bars |-> Bars(latestQuotes, latestOIs, now)]
    ELSE [op |-> "getNextBars", batch |-> FALSE]

getNextBars ==
    /\ stopPc # "joining"
    /\ last' = NextBars
    /\ IF HasNewQuote
       THEN /\ nextBarsTime' = now
            /\ lastUpdateTime' = lastQuoteDateTime
            /\ latestQuotes' = [k \in DOMAIN latestQuotes |->
                                    Backfilled(latestQuotes[k], latestOIs)]
            /\ batches' = [last |-> lastQuoteDateTime,
                           all |-> batches.all \cup {lastQuoteDateTime},
                           again |-> batches.again
                                        \/ lastQuoteDateTime \in batches.all,
                           pending |-> FALSE]
       ELSE UNCHANGED <<nextBarsTime, lastUpdateTime, latestQuotes, batches>>
    /\ UNCHANGED <<now, pubVars, pubHist, cbHist, tickHist, sessionVars, connected, raceVars, transport,
                   latestOrder, latestOIs, lastQuoteDateTime,
                   lastReceivedDateTime, stopVars, srcOf, lastMerged>>

---------------------------------------------------------------------------
(* LiveTradeFeed.getLastBar and getMicroPrice.                             *)

\* the token id of each instrument
instrumentToTokenIdMapping ==
    [i \in {tokenIdToInstrumentMappings[k] : k \in Keys} |->
        CHOOSE k \in Keys : tokenIdToInstrumentMappings[k] = i]

getLastBar(instr) ==
    LET tokenId == instrumentToTokenIdMapping[instr]
    IN  /\ stopPc # "joining"
        /\ last' = IF tokenId \in DOMAIN latestQuotes
                   THEN [op |-> "getLastBar", instrument |-> instr, some |-> TRUE,
                         bar |-> QuoteBar(latestQuotes[tokenId],
                                          latestQuotes[tokenId]["ft"])]
                   ELSE [op |-> "getLastBar", instrument |-> instr, some |-> FALSE]
        /\ UNCHANGED <<now, pubVars, pubHist, cbHist, tickHist, sessionVars,
                       connected, raceVars, transport, cacheVars, pollVars, stopVars,
                       subHist>>

getMicroPrice(instr) ==
    LET tokenId == instrumentToTokenIdMapping[instr]
    IN  /\ stopPc # "joining"
        /\ last' = [op |-> "getMicroPrice", instrument |-> instr,
                    twentieths |-> IF tokenId \in DOMAIN latestQuotes
                                   THEN microprice(latestQuotes[tokenId])
                                   ELSE 0]
        /\ UNCHANGED <<now, pubVars, pubHist, cbHist, tickHist, sessionVars,
                       connected, raceVars, transport, cacheVars, pollVars, stopVars,
                       subHist>>

---------------------------------------------------------------------------
(* The liveness monitor: LiveTradeFeed.isDataFeedAlive.                    *)

\* (mutant) alive only while strictly younger than the interval
IsDataFeedAlive_Strict(heartBeatInterval) ==
    /\ lastQuoteDateTime # None
    /\ now - lastQuoteDateTime < heartBeatInterval

IsDataFeedAlive(heartBeatInterval) ==
    /\ lastQuoteDateTime # None
    /\ now - lastQuoteDateTime <= heartBeatInterval

isDataFeedAlive(heartBeatInterval) ==
    /\ stopPc # "joining"
    /\ last' = [op |-> "isDataFeedAlive", heartBeatInterval |-> heartBeatInterval,
                at |-> now, val |-> IsDataFeedAlive(heartBeatInterval)]
    /\ UNCHANGED <<now, pubVars, pubHist, cbHist, tickHist, sessionVars, connected, raceVars, transport,
                   cacheVars, pollVars, stopVars, subHist>>

---------------------------------------------------------------------------
(* Nearest-premium search: LiveTradeFeed.findNearestPremiumOption.         *)

\* The option-contract resolver, external to the feed: A and B are calls
\* and C is a put of expiry 1, D is not an option.
getOptionContract(instr) ==
    IF instr \in {<<"NFO", "A">>, <<"NFO", "B">>}
        THEN [some |-> TRUE, expiry |-> 1, type |-> "c"]
    ELSE IF instr = <<"NFO", "C">>
        THEN [some |-> TRUE, expiry |-> 1, type |-> "p"]
    ELSE [some |-> FALSE]

\* the entries the search skips
Skipped(optionContract, expiry, optionType) ==
    \/ ~ optionContract.some
    \/ optionContract.expiry # expiry
    \/ optionContract.type # (IF optionType = "CALL" THEN "c" ELSE "p")

\* (mutant) an entry as near as the nearest so far replaces it
Closer_OrEqual(difference, minDifference) ==
    minDifference.inf \/ difference <= minDifference.val

\* difference < minDifference, minDifference starting at float("inf")
Closer(difference, minDifference) ==
    minDifference.inf \/ difference < minDifference.val

\* nearestOption and nearestPremium once no entry was looked at
NoneFound ==
    [nearestOption |-> <<>>, nearestPremium |-> None,
     minDifference |-> [inf |-> TRUE, val |-> 0]]

\* the loop over self.__latestQuotes.items(), in the dict's order
RECURSIVE Nearest(_, _, _, _, _)
Nearest(order, found, expiry, optionType, premium) ==
    IF order = <<>> THEN found
    ELSE LET tokenId == Head(order)
             instr == tokenIdToInstrumentMappings[tokenId]
             close == price(latestQuotes[tokenId])
             difference == abs(close - premium)
             next ==
                 IF Skipped(getOptionContract(instr), expiry, optionType)
                     THEN found
                 ELSE IF Closer(difference, found.minDifference)
                     THEN [nearestOption |-> instr, nearestPremium |-> close,
                           minDifference |-> [inf |-> FALSE, val |-> difference]]
                 ELSE found
         IN  Nearest(Tail(order), next, expiry, optionType, premium)

findNearestPremiumOption(expiry, optionType, premium) ==
    LET found == Nearest(latestOrder, NoneFound, expiry, optionType, premium)
    IN  /\ stopPc # "joining"
        /\ last' = [op |-> "findNearestPremiumOption", expiry |-> expiry,
                    optionType |-> optionType, premium |-> premium,
                    nearestOption |-> found.nearestOption,
                    nearestPremium |-> found.nearestPremium]
        /\ UNCHANGED <<now, pubVars, pubHist, cbHist, tickHist, sessionVars, connected, raceVars, transport,
                       cacheVars, pollVars, stopVars, subHist>>

---------------------------------------------------------------------------
(* findNearestPremiumOption, iteration by iteration. The for loop iterates *)
(* the live dict: the iterator remembers the dict's size when it is made   *)
(* and every next() raises RuntimeError ("dictionary changed size during   *)
(* iteration") once the size differs, also the next() that would end the   *)
(* loop. Nothing catches it.                                               *)

\* iter(self.__latestQuotes.items())
findNearestBegin(expiry, optionType, premium) ==
    /\ scan.pc # "scanning"
    /\ stopPc # "joining"
    /\ scan' = [pc |-> "scanning", used |-> Cardinality(DOMAIN latestQuotes),
                pos |-> 0, found |-> NoneFound, expiry |-> expiry,
                optionType |-> optionType, premium |-> premium]
    /\ UNCHANGED <<now, pubVars, pubHist, cbHist, tickHist, sessionVars,
                   connected, merging, transport, cacheVars, pollVars,
                   stopVars, last, subHist>>

\* one next() of the iterator and the loop body, or the return
findNearestNext ==
    /\ scan.pc = "scanning"
    /\ IF Cardinality(DOMAIN latestQuotes) # scan.used
       THEN /\ scan' = [pc |-> "aborted"]
            /\ last' = [op |-> "findNearestPremiumOption", raised |-> TRUE]
       ELSE IF scan.pos = Len(latestOrder)
       THEN /\ scan' = [pc |-> "idle"]
            /\ last' = [op |-> "findNearestPremiumOption", raised |-> FALSE,
                        expiry |-> scan.expiry,
                        optionType |-> scan.optionType,
                        premium |-> scan.premium,
                        nearestOption |-> scan.found.nearestOption,
                        nearestPremium |-> scan.found.nearestPremium]
       ELSE /\ scan' = [scan EXCEPT
                           !.pos = @ + 1,
                           !.found = Nearest(<<latestOrder[scan.pos + 1]>>,
                                             scan.found, scan.expiry,
                                             scan.optionType, scan.premium)]
            /\ UNCHANGED last
    /\ UNCHANGED <<now, pubVars, pubHist, cbHist, tickHist, sessionVars,
                   connected, merging, transport, cacheVars, pollVars,
                   stopVars, subHist>>

---------------------------------------------------------------------------
(* LiveTradeFeed.stop: set the flag, close socket and context, join.       *)

stopBegin ==
    /\ stopPc = "idle"
    /\ stopped' = TRUE
    /\ stopPc' = "joining"
    /\ UNCHANGED <<now, pubVars, pubHist, cbHist, tickHist, sessionVars, connected, raceVars, transport,
                   cacheVars, pollVars, loopPc, last, subHist>>

\* self.__loopThread.join() returns once the thread has ended
stopJoin ==
    /\ stopPc = "joining"
    /\ loopPc \in {"exited", "raised"}
    /\ stopPc' = "returned"
    /\ UNCHANGED <<now, pubVars, pubHist, cbHist, tickHist, sessionVars, connected, raceVars, transport,
                   cacheVars, pollVars, stopped, loopPc, last, subHist>>

---------------------------------------------------------------------------
(* The wall clock.                                                         *)

Tick(most) ==
    /\ now < most
    /\ now' = now + 1
    /\ UNCHANGED <<pubVars, pubHist, cbHist, tickHist, sessionVars, connected, raceVars, transport, cacheVars,
                   pollVars, stopVars, last, subHist>>

---------------------------------------------------------------------------
(* The state after construction of both processes.                         *)

InitWith(isConnected) ==
    /\ now = 0
    /\ pubQuotes = EmptyDict
    /\ pubLastQuoteDateTime = None
    /\ pubLastReceivedDateTime = None
    /\ pubConnected = FALSE
    /\ connectionOpened = FALSE
    /\ pendingSubscriptions = {}
    /\ wait = NotWaiting
    /\ pubSocket = "open"
    /\ clickhouse = "none"
    /\ nSent = 0
    /\ nOrders = 0
    /\ callback = [cb |-> "none", raised |-> FALSE, caught |-> FALSE]
    /\ stored = [client |-> "none", called |-> FALSE, rows |-> <<>>]
    /\ connected = isConnected
    /\ merging = [pc |-> "idle"]
    /\ scan = [pc |-> "idle"]
    /\ transport = <<>>
    /\ latestQuotes = EmptyDict
    /\ latestOrder = <<>>
    /\ latestOIs = EmptyDict
    /\ lastQuoteDateTime = None
    /\ lastReceivedDateTime = None
    /\ lastUpdateTime = None
    /\ nextBarsTime = None
    /\ stopped = FALSE
    /\ loopPc = "running"
    /\ stopPc = "idle"
    /\ last = NoLast
    /\ nTicks = 0
    /\ seen = [k \in Keys |-> NoSeen]
    /\ lastTick = EmptyDict
    /\ repeated = FALSE
    /\ prevRecord = EmptyDict
    /\ lastSent = EmptyDict
    /\ srcOf = EmptyDict
    /\ lastMerged = EmptyDict
    /\ batches = [last |-> None, all |-> {}, again |-> FALSE,
                  pending |-> FALSE]

\* the broker session calls onQuoteUpdate with one of `ticks`, at most
\* `most` times
QuoteUpdate(ticks, most) ==
    /\ nTicks < most
    /\ \E message \in ticks :
          /\ onQuoteUpdate(message)
          /\ lastTick' = message
          /\ repeated' = (message = lastTick)
          /\ prevRecord' = Get(pubQuotes, KeyOf(message), EmptyDict)
    /\ UNCHANGED <<now, nOrders, sessionVars, connected, raceVars, cacheVars, pollVars, stopVars,
                   last, subHist>>

---------------------------------------------------------------------------
(* Spec: publisher, transport and subscriber; two instruments whose ticks  *)
(* carry a last price, an open interest and an exchange timestamp, or not. *)
(* The wall clock stands still (SpecSeries moves it).                      *)

FeedTicks ==
    { RawTick(k, lp, Absent, oi, ft) :
        k \in {<<"NFO", "1">>, <<"NFO", "2">>},
        lp \in {Absent, Str(0), Str(1)},
        oi \in {Absent, Str(0), Str(120)},
        ft \in {Absent, Str(1)} }

Init == InitWith(TRUE)

Next ==
    \/ QuoteUpdate(FeedTicks, MaxTicks)
    \/ AsyncMain
    \/ getNextBars
    \/ stopBegin
    \/ stopJoin

Spec == Init /\ [][Next]_vars

\* the instrument a cached key names, and its bar in the batch returned last
InstrumentOf(key) == tokenIdToInstrumentMappings[key]
BarOf(key) == last.bars[InstrumentOf(key)]
Batch == last.op = "getNextBars" /\ last.batch

\* a quote-update whose last price is absent or not positive
NonPositive(message) == "lp" \notin DOMAIN message \/ message["lp"][2] <= 0

\* C3: a receive-loop iteration that receives a quote-update with last price
\* <= 0 or absent leaves cache, open-interest table and both clocks as they
\* were and raises nothing; a poll after it returns what a poll before it
\* would have, and no batch when the last timestamp was already consumed.
C3_DiscardChangesNothing ==
    [][(/\ ~ stopped
        /\ transport # <<>>
        /\ NonPositive(Head(transport).payload)
        /\ AsyncMain)
       => /\ UNCHANGED <<latestQuotes, latestOrder, latestOIs,
                         lastQuoteDateTime, lastReceivedDateTime>>
          /\ loopPc' = "running"
          /\ NextBars' = NextBars
          /\ lastUpdateTime = lastQuoteDateTime => ~ NextBars'.batch]_vars

\* C3 witness: a tick was discarded while the cache held a record whose
\* timestamp was already consumed
C3_Witness ==
    /\ last.op = "discard"
    /\ latestQuotes # EmptyDict
    /\ lastUpdateTime = lastQuoteDateTime

\* C4: once stop() has returned the receive loop has exited, and the quote
\* cache never changes again, whatever the caller invokes.
C4_NoCacheChangeAfterStop ==
    /\ [](stopPc = "returned" => loopPc = "exited")
    /\ [][stopPc = "returned" => latestQuotes' = latestQuotes]_vars

\* C6: a batch holds one bar for each cached instrument and no other, each
\* with open = high = low = close = the cached last price; while no tick
\* was ever merged getNextBars returns no batch.
C6_OneBarPerCachedInstrument ==
    last.op = "getNextBars" =>
        /\ lastMerged = EmptyDict => ~ last.batch
        /\ last.batch =>
              /\ DOMAIN last.bars = {InstrumentOf(k) : k \in DOMAIN latestQuotes}
              /\ Cardinality(DOMAIN last.bars) = Cardinality(DOMAIN latestQuotes)
              /\ \A k \in DOMAIN latestQuotes :
                    /\ BarOf(k).instrument = InstrumentOf(k)
                    /\ BarOf(k).open = latestQuotes[k]["lp"][2]
                    /\ BarOf(k).high = latestQuotes[k]["lp"][2]
                    /\ BarOf(k).low = latestQuotes[k]["lp"][2]
                    /\ BarOf(k).close = latestQuotes[k]["lp"][2]

\* C6 witness: a batch over a cache of two instruments
C6_Witness == Batch /\ Cardinality(DOMAIN latestQuotes) = 2

\* C7: the bar of an instrument reports the open interest that the merged
\* tick carried or, when it carried none, the open interest that the last
\* earlier tick of the instrument with one carried.
C7_OpenInterestCarried ==
    Batch =>
        \A k \in DOMAIN latestQuotes :
            srcOf[k].oi # Absent => BarOf(k).openInterest = srcOf[k].oi[2]

\* C7 witness: the merged tick carried no open interest, an earlier one 120
C7_Witness ==
    /\ Batch
    /\ \E k \in DOMAIN latestQuotes :
          /\ ~ srcOf[k].hasOi
          /\ srcOf[k].oi = Str(120)
          /\ BarOf(k).openInterest = 120

---------------------------------------------------------------------------
(* SpecPub: the publisher alone, no subscriber connected; two instruments  *)
(* whose ticks carry a last price, a cumulative volume and an exchange     *)
(* timestamp, or not.                                                      *)

PubTicks ==
    { RawTick(k, lp, v, Absent, ft) :
        k \in {<<"NFO", "1">>, <<"NFO", "2">>},
        lp \in {Absent, Str(0), Str(1)},
        v \in {Absent, Str(0), Str(1), Str(2)},
        ft \in {Absent, Str(1)} }

InitPub == InitWith(FALSE)

NextPub ==
    \/ QuoteUpdate(PubTicks, MaxTicks)
    \/ Tick(MaxTime)

SpecPub == InitPub /\ [][NextPub]_vars

\* the last tick's key and the record cached for it
LastKey == KeyOf(lastTick)
LastRecord == pubQuotes[LastKey]

\* C1: the incremental volume of every cached record and of the broadcast
\* record is >= 0; after a tick it is the tick's cumulative volume minus the
\* cumulative volume cached for the key before, and 0 when there was none or
\* when the difference is negative.
C1_IncrementalVolumeClamped ==
    /\ \A k \in DOMAIN pubQuotes : float(pubQuotes[k]["volume"]) >= 0
    /\ lastTick # EmptyDict =>
          /\ float(lastSent.payload["volume"]) >= 0
          /\ float(LastRecord["volume"]) =
                IF "v" \in DOMAIN lastTick /\ "v" \in DOMAIN prevRecord
                      /\ float(lastTick["v"]) >= float(prevRecord["v"])
                THEN float(lastTick["v"]) - float(prevRecord["v"])
                ELSE 0

\* the fields of a record that the raw tick decides: all but the receipt
\* time, the incremental volume and, for a tick without exchange timestamp,
\* the quote time taken from the wall clock
MarketFields(record, tick) ==
    (DOMAIN record \ {"ct", "volume"})
        \ (IF "ft" \in DOMAIN tick THEN {} ELSE {"ft"})

\* C8: when onQuoteUpdate is called with the tick of the call before it, the
\* cached record keeps every market-data field it had after the first call
\* and the incremental volume of the second call is 0.
C8_RepeatIdempotent ==
    repeated =>
        /\ DOMAIN LastRecord = DOMAIN prevRecord
        /\ \A f \in MarketFields(prevRecord, lastTick) :
              LastRecord[f] = prevRecord[f]
        /\ DOMAIN lastTick \subseteq MarketFields(LastRecord, lastTick)
        /\ float(LastRecord["volume"]) = 0

\* C8 witness: a tick with a cumulative volume was applied twice, and the
\* first application produced a volume other than 0
C8_Witness ==
    /\ repeated
    /\ "v" \in DOMAIN lastTick
    /\ float(prevRecord["volume"]) # 0
    /\ float(LastRecord["volume"]) = 0

\* C17: onQuoteUpdate of a tick whose last price is not positive leaves
\* the record cached for the tick's key, or its absence, as it was.
C17_NonPositiveRejected ==
    (/\ lastTick # EmptyDict
     /\ "lp" \in DOMAIN lastTick
     /\ float(lastTick["lp"]) <= 0)
        => Get(pubQuotes, LastKey, EmptyDict) = prevRecord

---------------------------------------------------------------------------
(* SpecSeries: publisher, transport and subscriber for one instrument      *)
(* whose ticks all carry a last price, and a cumulative volume and an      *)
(* exchange timestamp or not.                                              *)

SeriesTicks ==
    { RawTick(<<"NFO", "1">>, Str(1), v, Absent, ft) :
        v \in {Absent, Str(0), Str(1), Str(2)},
        ft \in {Absent, Str(1), Str(2)} }

NextSeries ==
    \/ QuoteUpdate(SeriesTicks, MaxSeriesTicks)
    \/ AsyncMain
    \/ getNextBars

SpecSeries == Init /\ [][NextSeries]_vars

\* C2: while every tick of the instrument carried a cumulative volume no
\* smaller than the one before, the bar of a batch has the volume of the
\* merged tick minus that of the tick before it, and 0 for the first tick.
C2_BarVolumeIsIncrement ==
    Batch =>
        \A k \in DOMAIN latestQuotes :
            srcOf[k].mono =>
                BarOf(k).volume = IF srcOf[k].first THEN 0
                                  ELSE srcOf[k].v[2] - srcOf[k].prevV[2]

\* C5: no lastQuoteDateTime value is ever given two batches.
C5_OneBatchPerTimestamp == ~ batches.again

---------------------------------------------------------------------------
(* SpecAlive: one instrument, the wall clock and the liveness monitor.     *)

\* the default of isDataFeedAlive's heartBeatInterval
DefaultHeartBeatInterval == 5

AliveTicks ==
    { RawTick(<<"NFO", "1">>, Str(1), Absent, Absent, ft) :
        ft \in {Absent, Str(1)} }

NextAlive ==
    \/ QuoteUpdate(AliveTicks, MaxTicks)
    \/ AsyncMain
    \/ Tick(MaxAliveTime)
    \/ \E h \in {0, DefaultHeartBeatInterval} : isDataFeedAlive(h)

SpecAlive == Init /\ [][NextAlive]_vars

\* C9: isDataFeedAlive(threshold) is false while no quote was ever merged;
\* afterwards it is true exactly when the time of the call minus the quote
\* time of the tick merged last is at most threshold.
C9_AliveIffRecent ==
    last.op = "isDataFeedAlive" =>
        last.val = (/\ lastMerged # EmptyDict
                    /\ last.at - lastMerged.ft <= last.heartBeatInterval)

\* C9 witness: with threshold 5, false 6 seconds after the merged quote
C9_Witness ==
    /\ last.op = "isDataFeedAlive"
    /\ last.heartBeatInterval = DefaultHeartBeatInterval
    /\ lastMerged # EmptyDict
    /\ last.at - lastMerged.ft = DefaultHeartBeatInterval + 1
    /\ ~ last.val

---------------------------------------------------------------------------
(* SpecSearch: four instruments with last prices 1 to 3, and the search    *)
(* for the option of an expiry and a type nearest to premium 2.            *)

SearchTicks ==
    { RawTick(k, lp, Absent, Absent, Absent) :
        k \in Keys, lp \in {Str(1), Str(2), Str(3)} }

NextSearch ==
    \/ QuoteUpdate(SearchTicks, MaxSeriesTicks)
    \/ AsyncMain
    \/ \E expiry \in {1, 2}, optionType \in {"CALL", "PUT"} :
           findNearestPremiumOption(expiry, optionType, 2)

SpecSearch == Init /\ [][NextSearch]_vars

\* the positions in the cache's order whose entry passes the search's filters
Passing(expiry, optionType) ==
    { i \in 1..Len(latestOrder) :
        LET optionContract ==
                getOptionContract(tokenIdToInstrumentMappings[latestOrder[i]])
        IN  /\ optionContract.some
            /\ optionContract.expiry = expiry
            /\ optionContract.type = (IF optionType = "CALL" THEN "c" ELSE "p") }

\* the last price cached at a position of the cache's order
PriceAt(i) == float(latestQuotes[latestOrder[i]]["lp"])

\* C10: the search returns no instrument and no price iff no cached entry is
\* an option of the expiry and type asked for; otherwise it returns the
\* instrument and the price of the first entry, in the cache's order, among
\* those whose price is nearest to the premium.
C10_NearestFirstEncountered ==
    last.op = "findNearestPremiumOption" =>
        LET passing == Passing(last.expiry, last.optionType)
            dist(i) == abs(PriceAt(i) - last.premium)
        IN  IF passing = {}
                THEN last.nearestOption = <<>> /\ last.nearestPremium = None
            ELSE \E i \in passing :
                    /\ last.nearestOption = tokenIdToInstrumentMappings[latestOrder[i]]
                    /\ last.nearestPremium = PriceAt(i)
                    /\ \A j \in passing :
                          /\ dist(i) <= dist(j)
                          /\ dist(j) = dist(i) => i <= j

\* C10 witness: two calls of the expiry at different prices equally near
\* the premium, with other entries cached, and the first one returned
C10_Witness ==
    /\ last.op = "findNearestPremiumOption"
    /\ Len(latestOrder) >= 3
    /\ \E i, j \in Passing(last.expiry, last.optionType) :
          /\ i < j
          /\ PriceAt(i) # PriceAt(j)
          /\ abs(PriceAt(i) - last.premium) = abs(PriceAt(j) - last.premium)
          /\ last.nearestOption = tokenIdToInstrumentMappings[latestOrder[i]]
          /\ last.nearestPremium = PriceAt(i)

---------------------------------------------------------------------------
(* SpecWait: the publisher, its connection callback, the wall clock and    *)
(* one waitInitialized call.  The session opens once and quotes arrive     *)
(* once onOpened has subscribed the channels.  The clock does not pass a   *)
(* moment at which the waiting thread is due to run.                       *)

WaitTicks == { RawTick(k, Str(1), Absent, Absent, Absent) : k \in Keys }

NextWait ==
    \/ pubConnected /\ QuoteUpdate(WaitTicks, MaxWaitTicks)
    \/ ~ pubConnected /\ \E subscribed \in BOOLEAN : onOpened(subscribed)
    \/ \E timeout \in {1, 2} : waitInitialized(timeout)
    \/ waitOpened
    \/ waitPoll
    \/ ~ WaitDue /\ Tick(MaxWaitTime)

SpecWait == InitPub /\ [][NextWait]_vars

\* the step at which waitInitialized returns
WaitReturns == wait.pc # "returned" /\ wait'.pc = "returned"

\* C11: waitInitialized returns success only when the ready condition has
\* fired and every pending channel has a quote in the publisher's cache, and
\* the pending set is empty after it; it returns failure when the ready
\* condition has not fired and when a pending channel has no quote.
C11_SuccessIffAllQuoted ==
    [][WaitReturns =>
          /\ wait'.result =>
                /\ connectionOpened
                /\ pendingSubscriptions \subseteq DOMAIN pubQuotes
                /\ pendingSubscriptions' = {}
          /\ ~ connectionOpened => ~ wait'.result
          /\ ~ (pendingSubscriptions \subseteq DOMAIN pubQuotes) => ~ wait'.result
      ]_vars

\* C11 witness: success, returned after a sleep, with every channel quoted
C11_Witness ==
    /\ wait.pc = "returned"
    /\ wait.result
    /\ wait.returnedAt > wait.calledAt
    /\ DOMAIN pubQuotes = Keys
    /\ pendingSubscriptions = {}

\* C12: waitInitialized(timeout) returns no later than timeout seconds
\* after it was called.
C12_ReturnsWithinTimeout ==
    wait.pc = "returned" => wait.returnedAt - wait.calledAt <= wait.timeout

---------------------------------------------------------------------------
(* SpecFaults: publisher, transport and subscriber; one instrument whose   *)
(* ticks carry a last price and an open interest that are decimal strings  *)
(* or other text.                                                          *)

FaultTicks ==
    { RawTick(<<"NFO", "1">>, lp, Absent, oi, ft) :
        lp \in {Str(0), Str(1), NaS},
        oi \in {Absent, Str(120), NaS},
        ft \in {Absent, Str(1)} }

NextFaults ==
    \/ QuoteUpdate(FaultTicks, MaxTicks)
    \/ AsyncMain
    \/ getNextBars
    \/ stopBegin
    \/ stopJoin

SpecFaults == Init /\ [][NextFaults]_vars

\* C13: a quote-update whose price is not a number is dropped with cache
\* and clocks as they were, and the receive loop runs on: its thread has
\* ended only once the stop signal was set.
C13_LoopOutlivesMalformed ==
    /\ loopPc # "running" => stopped
    /\ last.op = "raise" => loopPc = "running"

---------------------------------------------------------------------------
(* SpecSession: the broker session's callbacks on the publisher, and       *)
(* stopClient: quote updates whose timestamp and volume are numbers or     *)
(* other text, order updates, open, close and error events.                *)

SessionTicks ==
    { RawTick(<<"NFO", "1">>, Str(1), v, Absent, ft) :
        v \in {Absent, Str(1), NaS}, ft \in {Absent, Str(1), NaS} }

OrderEvents ==
    { [norenordno |-> "1", status |-> status] : status \in {"OPEN", "COMPLETE"} }

OrderUpdate(most) ==
    /\ nOrders < most
    /\ \E message \in OrderEvents : onOrderUpdate(message)

NextSession ==
    \/ QuoteUpdate(SessionTicks, MaxTicks)
    \/ OrderUpdate(MaxOrders)
    \/ \E subscribed \in BOOLEAN : onOpened(subscribed)
    \/ onClosed
    \/ onError
    \/ stopClient

SpecSession == Init /\ [][NextSession]_vars

\* C14: no broker callback raises an exception to the session: whatever
\* step fails inside it, the callback returns.
C14_CallbacksNeverRaise == ~ callback.raised

---------------------------------------------------------------------------
(* SpecSink: the publisher with a durable sink that is not configured, up  *)
(* or down; two instruments whose ticks carry a trading symbol and a       *)
(* cumulative volume, or not.                                              *)

SinkTicks ==
    { RawTick(k, Str(1), v, Absent, Absent) @@ Opt("ts", ts) :
        k \in {<<"NFO", "1">>, <<"NFO", "2">>},
        v \in {Absent, Str(1), Str(2)},
        ts \in {Absent, NaS} }

NextSink ==
    \/ QuoteUpdate(SinkTicks, MaxTicks)
    \/ \E state \in {"none", "up", "down"} : clickhouseTurns(state)
    \/ Tick(MaxTime)

SpecSink == InitPub /\ [][NextSink]_vars

\* the publisher's cache before the last tick, at that tick's key
Before == IF prevRecord = EmptyDict THEN EmptyDict ELSE LastKey :> prevRecord

\* C15: whatever the sink does, every onQuoteUpdate returns without an
\* exception raised or caught, caches the record that the tick and the
\* cache before it decide, and broadcasts that record.
C15_SinkNeverMatters ==
    lastTick # EmptyDict =>
        /\ callback = [cb |-> "onQuoteUpdate", raised |-> FALSE, caught |-> FALSE]
        /\ LastRecord = QuoteRecord(Before, lastTick, LastRecord["ct"])
        /\ lastSent.topic = "FEED_UPDATE"
        /\ lastSent.payload = LastRecord
        /\ nSent = nTicks

\* C15 witness: the sink was called while down, for the second tick
C15_Witness ==
    /\ stored.called
    /\ stored.client = "down"
    /\ stored.rows = <<>>
    /\ nSent = 2
    /\ lastSent.payload = LastRecord

---------------------------------------------------------------------------
(* SpecOrders: order updates and quote updates of two instruments, in any  *)
(* order, with the subscriber's receive loop running.                      *)

OrdersTicks ==
    { RawTick(k, lp, Absent, Absent, Absent) :
        k \in {<<"NFO", "1">>, <<"NFO", "2">>}, lp \in {Str(1), Str(2)} }

NextOrders ==
    \/ QuoteUpdate(OrdersTicks, MaxTicks)
    \/ OrderUpdate(MaxOrders)
    \/ ~ pubConnected /\ onOpened(TRUE)
    \/ AsyncMain

SpecOrders == Init /\ [][NextOrders]_vars

\* C16: onOrderUpdate sends one message, on topic ORDER_UPDATE, carrying
\* the order event, and leaves the publisher's cache, clocks and pending
\* set as they were; no order update reaches the subscriber's socket, whose
\* cache and clocks it leaves as they were, and the receive loop runs on.
C16_OrdersBypassCache ==
    /\ [](\A i \in 1..Len(transport) : transport[i].topic = "FEED_UPDATE")
    /\ [](loopPc = "running")
    /\ [][nOrders' # nOrders =>
            /\ nSent' = nSent + 1
            /\ lastSent'.topic = "ORDER_UPDATE"
            /\ lastSent'.payload.json = callback'.message
            /\ UNCHANGED <<pubVars, pendingSubscriptions, cacheVars>>
        ]_vars

\* C16 witness: an order update was sent while a quote was cached by the
\* subscriber and another was in flight, with channels pending
C16_Witness ==
    /\ callback.cb = "onOrderUpdate"
    /\ lastSent.topic = "ORDER_UPDATE"
    /\ pendingSubscriptions # {}
    /\ latestQuotes # EmptyDict
    /\ transport # <<>>

---------------------------------------------------------------------------
(* SpecReaders: the receive loop and every caller-side operation; two      *)
(* instruments whose ticks carry an open interest and the best bid and     *)
(* offer, or not.                                                          *)

Depth == ("bp1" :> Str(1)) @@ ("sp1" :> Str(2)) @@ ("bq1" :> Str(1))
             @@ ("sq1" :> Str(2))

ReaderTicks ==
    { RawTick(k, Str(1), Absent, oi, Absent) @@ depth :
        k \in {<<"NFO", "1">>, <<"NFO", "2">>},
        oi \in {Absent, Str(120)},
        depth \in {EmptyDict, Depth} }

Instruments == {<<"NFO", "A">>, <<"NFO", "B">>}

NextReaders ==
    \/ QuoteUpdate(ReaderTicks, MaxTicks)
    \/ AsyncMain
    \/ getNextBars
    \/ \E instr \in Instruments : getLastBar(instr)
    \/ \E instr \in Instruments : getMicroPrice(instr)
    \/ isDataFeedAlive(DefaultHeartBeatInterval)
    \/ findNearestPremiumOption(1, "CALL", 2)

SpecReaders == Init /\ [][NextReaders]_vars

ReaderOps ==
    {"getNextBars", "getLastBar", "getMicroPrice", "isDataFeedAlive",
     "findNearestPremiumOption"}

\* C18: a step after which the subscriber's last operation is one of the
\* caller-side operations leaves every cached record, the open-interest
\* table, lastQuoteDateTime and lastReceivedDateTime as they were: only the
\* receive loop writes them.
C18_ReadersWriteNothing ==
    [][last'.op \in ReaderOps =>
          UNCHANGED <<latestQuotes, latestOIs, lastQuoteDateTime,
                      lastReceivedDateTime>>]_vars

---------------------------------------------------------------------------
(* SpecRace: the receive loop and the caller's thread interleaved at the   *)
(* statements of a merge and at the iterations of the search; two          *)
(* instruments, ticks with a price, an exchange time and an open interest. *)

RaceTicks ==
    { RawTick(k, Str(1), Absent, oi, Str(ft)) :
        k \in {<<"NFO", "1">>, <<"NFO", "2">>},
        oi \in {Absent, Str(120)}, ft \in {1, 2} }

NextRace ==
    \/ QuoteUpdate(RaceTicks, MaxTicks)
    \/ asyncMainQuotes
    \/ asyncMainOIs
    \/ asyncMainClocks
    \/ getNextBars
    \/ findNearestBegin(1, "CALL", 2)
    \/ findNearestNext

SpecRace == Init /\ [][NextRace]_vars

\* C19: the caller's reads are guarded against the receive loop's writes:
\* no findNearestPremiumOption scan is aborted by a key inserted while it
\* runs, and a getNextBars call that runs between the statements of a merge
\* and returns a batch has seen the clock of that merge together with its
\* cache update (a call that returns no batch has read the clock only).
C19_ReadsGuarded ==
    /\ scan.pc # "aborted"
    /\ (last.op = "getNextBars" /\ last.batch /\ merging.pc # "idle")
           => lastQuoteDateTime = merging.message["ft"]

\* the two ways the guard is missed
C19_ScanAborted == scan.pc = "aborted"

C19_TornBatch ==
    /\ last.op = "getNextBars" /\ last.batch /\ merging.pc # "idle"
    /\ lastQuoteDateTime # merging.message["ft"]

---------------------------------------------------------------------------
(* SpecPolls: one instrument polled by the caller; ticks with a price (0   *)
(* is dropped by the receive loop), a cumulative volume and an exchange    *)
(* time.                                                                   *)

PollTicks ==
    { RawTick(<<"NFO", "1">>, Str(lp), Str(v), Absent, Str(ft)) :
        lp \in {0, 1, 2}, v \in {1, 2}, ft \in {1, 2} }

NextPolls ==
    \/ QuoteUpdate(PollTicks, MaxSeriesTicks)
    \/ AsyncMain
    \/ getNextBars

SpecPolls == Init /\ [][NextPolls]_vars

\* the bars of a batch carry, for every cached instrument, the price of the
\* tick merged last for it and that tick's cumulative volume minus the one
\* of the tick before it (minus 0 for the first tick)
CarriesMergedTicks(bars) ==
    \A k \in DOMAIN latestQuotes :
        /\ bars[InstrumentOf(k)].close = srcOf[k].lp[2]
        /\ bars[InstrumentOf(k)].volume =
               srcOf[k].v[2] - (IF srcOf[k].prevV = Absent THEN 0
                                ELSE srcOf[k].prevV[2])

\* C20: no merged tick is withheld: a getNextBars call made after a merge
\* that no batch covered yet returns a batch, and a batch carries the price
\* and incremental volume of the tick merged last for each instrument.
C20_NoTickWithheld ==
    /\ ~ (last.op = "getNextBars" /\ batches.pending)
    /\ Batch => CarriesMergedTicks(last.bars)

\* C20 as the code has it: a getNextBars call returns a batch exactly when
\* the quote time of the tick merged last differs from the quote time the
\* previous batch consumed (from none before the first batch), so a tick
\* merged with the consumed quote time is withheld until a tick with another
\* quote time is merged; a batch carries the price and the volume difference
\* of the tick merged last for each instrument.
C20_BatchIffNewQuoteTime ==
    [][(last'.op = "getNextBars" /\ UNCHANGED <<nTicks, transport, loopPc>>)
          => /\ last'.batch <=> lastQuoteDateTime # batches.last
             /\ last'.batch => CarriesMergedTicks(last'.bars)]_vars

\* a poll left a merged tick without a batch: its quote time is the consumed one
C20_Witness ==
    /\ last.op = "getNextBars" /\ ~ last.batch
    /\ batches.pending
    /\ lastQuoteDateTime = batches.last
    /\ lastMerged.lp[2] > 0

---------------------------------------------------------------------------
(* SpecReplica: the publisher's cache and the subscriber's cache, with the *)
(* subscriber connected from the start and the publisher emitting only     *)
(* while the queue has room, so that every emitted message is delivered,   *)
(* in order; two instruments, ticks with or without a price (0 included),  *)
(* a cumulative volume and an open interest.                               *)

ReplicaTicks ==
    { RawTick(k, lp, v, oi, Absent) :
        k \in {<<"NFO", "1">>, <<"NFO", "2">>},
        lp \in {Absent, Str(0), Str(1)},
        v \in {Absent, Str(1)},
        oi \in {Absent, Str(120)} }

NextReplica ==
    \/ Len(transport) < MaxQueue /\ QuoteUpdate(ReplicaTicks, MaxSeriesTicks)
    \/ AsyncMain
    \/ getNextBars

SpecReplica == Init /\ [][NextReplica]_vars

\* the fields two records are compared on
Replicated(record) == DOMAIN record \ {"oi"}

\* once every emitted message is consumed, every key of the publisher's
\* cache is in the subscriber's, with the same fields and values, open
\* interest aside
C21_CachesAgree ==
    transport = <<>> =>
        \A k \in DOMAIN pubQuotes :
            /\ k \in DOMAIN latestQuotes
            /\ Replicated(latestQuotes[k]) = Replicated(pubQuotes[k])
            /\ \A f \in Replicated(pubQuotes[k]) :
                   latestQuotes[k][f] = pubQuotes[k][f]

\* a step gives the subscriber's cache a key or a field value only out of
\* the emitted message it takes from the transport
C21_OnlyEmitted ==
    \A k \in DOMAIN latestQuotes' :
        \A f \in DOMAIN latestQuotes'[k] :
            (\/ k \notin DOMAIN latestQuotes
             \/ f \notin DOMAIN latestQuotes[k]
             \/ latestQuotes'[k][f] # latestQuotes[k][f])
            => /\ transport # <<>>
               /\ KeyOf(Head(transport).payload) = k
               /\ f \in DOMAIN Head(transport).payload
               /\ Head(transport).payload[f] = latestQuotes'[k][f]

\* C21: with the subscriber connected before the first emission and a
\* transport that loses and reorders nothing, once the receive loop has
\* consumed every emitted message the subscriber's record of every key the
\* publisher holds equals the publisher's on every field but open interest,
\* and the subscriber's cache never holds a key or a field value the
\* publisher did not emit.
C21_Replication == [] C21_CachesAgree /\ [][C21_OnlyEmitted]_vars

\* the two halves, each on its own
C21_AgreeAlways == [] C21_CachesAgree

C21_EmittedOnly == [][C21_OnlyEmitted]_vars

==========================================================================
